---- MODULE Spec2Model ----
(***************************************************************************)
(* The cricket score prediction bot: the interactionCreate handler of      *)
(* bot.ts (baseline) and of its advanced version, over the two SQLite      *)
(* tables of db.ts.  Handlers are asynchronous functions on one event      *)
(* loop: a handler runs without interruption up to its next await, so an   *)
(* action of this module is one such synchronous segment.  The store       *)
(* calls (better-sqlite3) are synchronous.                                 *)
(***************************************************************************)
EXTENDS Integers, Sequences, FiniteSets, TLC

(* ------------------------------ bounds --------------------------------- *)
\* number of matches ever set up (caps the clock that issues match ids)
MaxMatches == 2
\* number of Discord users issuing commands
NumUsers == 2
\* number of rows the predictions table may hold
MaxRows == 2
\* number of end handlers that may be suspended at their reply at once
MaxAwaiting == 1
\* largest value of the error the leaderboard draws for a user
MaxRandom == 1
\* matches set up, and end handlers suspended at once, when the lifecycle
\* commands are taken on their own
MaxLifecycleMatches == 3
MaxOverlappingEnds == 2
\* length of the texts given to parseScore on its own
MaxTextLen == 4
\* largest runs and wickets of the scores given to scoreDifference on its own
MaxRuns == 3
MaxWickets == 2

(* ------------------------------ values --------------------------------- *)
\* JavaScript null / undefined and SQL NULL
NULL == [null |-> TRUE]
\* a non-NULL INTEGER column value
Num(n) == [int |-> n]

Users == 1..NumUsers

\* bot.ts:22  const ADMIN_IDS = process.env.ADMINS?.split(',')...
ADMIN_IDS == {1}

\* the two builds of the bot
Variants == {"simple", "advanced"}

(* --------------------------- score parsing ----------------------------- *)
\* Texts are sequences of one-character strings.
Digits == {"0", "1", "2", "3", "4", "5", "6", "7", "8", "9"}
WhiteSpace == {" "}

DigitVal(c) ==
    CASE c = "0" -> 0 [] c = "1" -> 1 [] c = "2" -> 2 [] c = "3" -> 3
      [] c = "4" -> 4 [] c = "5" -> 5 [] c = "6" -> 6 [] c = "7" -> 7
      [] c = "8" -> 8 [] c = "9" -> 9

\* String.prototype.split(sep) for a one-character separator
RECURSIVE split(_, _)
split(s, sep) ==
    IF \A i \in 1..Len(s) : s[i] # sep
    THEN <<s>>
    ELSE LET k == CHOOSE i \in 1..Len(s) :
                      s[i] = sep /\ \A j \in 1..(i - 1) : s[j] # sep
         IN  <<SubSeq(s, 1, k - 1)>> \o split(SubSeq(s, k + 1, Len(s)), sep)

RECURSIVE trimStart(_)
trimStart(s) ==
    IF s # <<>> /\ Head(s) \in WhiteSpace THEN trimStart(Tail(s)) ELSE s

RECURSIVE trimEnd(_)
trimEnd(s) ==
    IF s # <<>> /\ s[Len(s)] \in WhiteSpace
    THEN trimEnd(SubSeq(s, 1, Len(s) - 1))
    ELSE s

\* String.prototype.trim()
trim(s) == trimEnd(trimStart(s))

\* the longest prefix of s made of decimal digits
RECURSIVE DigitPrefix(_)
DigitPrefix(s) ==
    IF s # <<>> /\ Head(s) \in Digits
    THEN <<Head(s)>> \o DigitPrefix(Tail(s))
    ELSE <<>>

RECURSIVE DecimalValue(_)
DecimalValue(ds) ==
    IF ds = <<>> THEN 0
    ELSE 10 * DecimalValue(SubSeq(ds, 1, Len(ds) - 1)) + DigitVal(ds[Len(ds)])

NaN == [nan |-> TRUE]
isNaN(x) == x = NaN

\* parseInt(str, 10): leading white space is skipped, one sign is read, then
\* the longest run of digits; what follows the digits is ignored; no digit
\* at all gives NaN.
parseInt(str) ==
    LET s      == trimStart(str)
        signed == s # <<>> /\ Head(s) \in {"+", "-"}
        body   == IF signed THEN Tail(s) ELSE s
        ds     == DigitPrefix(body)
        v      == DecimalValue(ds)
    IN  IF ds = <<>> THEN NaN
        ELSE [nan |-> FALSE,
              value |-> IF signed /\ Head(s) = "-" THEN 0 - v ELSE v]

\* bot.ts:31-38
parseScore(scoreStr) ==
    LET parts == split(scoreStr, "/")
    IN  IF Len(parts) # 2 THEN NULL
        ELSE LET runs    == parseInt(trim(parts[1]))
                 wickets == parseInt(trim(parts[2]))
             IN  IF isNaN(runs) \/ isNaN(wickets) THEN NULL
                 ELSE [runs |-> runs.value, wickets |-> wickets.value]

(* ----------------------------- distance -------------------------------- *)
Abs(x) == IF x < 0 THEN 0 - x ELSE x

\* the advanced distance with the wickets counted once
scoreDifferenceUnweighted(variant, pred, actual) ==
    IF variant = "simple"
    THEN Abs(pred.runs - actual.runs)
    ELSE Abs(pred.runs - actual.runs) + Abs(pred.wickets - actual.wickets)

\* bot.ts:41-43 (baseline) and its advanced counterpart
scoreDifference(variant, pred, actual) ==
    IF variant = "simple"
    THEN Abs(pred.runs - actual.runs)
    ELSE Abs(pred.runs - actual.runs) + 5 * Abs(pred.wickets - actual.wickets)

(* ------------------------------- store --------------------------------- *)
\* A table is the sequence of its rows in rowid order.  A parameter object
\* is a record holding the properties that are not undefined; binding an
\* undefined property binds SQL NULL, which COALESCE skips.

\* db.ts:52-65
insertMatch(ms, match) ==
    Append(ms, [id            |-> match.id,
                teamName      |-> match.teamName,
                toss          |-> match.toss,
                venue         |-> match.venue,
                matchDate     |-> match.matchDate,
                isOpen        |-> IF match.isOpen THEN 1 ELSE 0,
                actualRuns    |-> NULL,
                actualWickets |-> NULL])

\* COALESCE(@col, col) of UPDATE matches, for one column of one row
Coalesce(match, col, old) ==
    IF col \in DOMAIN match
    THEN CASE col = "isOpen" -> (IF match.isOpen THEN 1 ELSE 0)
           [] col \in {"actualRuns", "actualWickets"} -> Num(match[col])
           [] OTHER -> match[col]
    ELSE old

\* the UPDATE without its WHERE clause
updateMatchEveryRow(ms, match) ==
    [i \in 1..Len(ms) |->
        [col \in DOMAIN ms[i] |->
            IF col = "id" THEN ms[i].id ELSE Coalesce(match, col, ms[i][col])]]

\* db.ts:67-86, with the descriptive columns of the advanced version
updateMatch(ms, match) ==
    [i \in 1..Len(ms) |->
        IF ms[i].id = match.id
        THEN [col \in DOMAIN ms[i] |->
                 IF col = "id" THEN ms[i].id ELSE Coalesce(match, col, ms[i][col])]
        ELSE ms[i]]

\* the columns ON CONFLICT ... DO UPDATE SET assigns from the excluded row
UpsertColumns == {"username", "runs", "wickets", "comment"}

SameKey(row, prediction) ==
    row.matchId = prediction.matchId /\ row.userId = prediction.userId

\* the INSERT without its ON CONFLICT clause, on a table without the key
insertPredictionAlways(ps, prediction) == Append(ps, prediction)

\* db.ts:88-104
insertOrUpdatePrediction(ps, prediction) ==
    IF \E i \in 1..Len(ps) : SameKey(ps[i], prediction)
    THEN [i \in 1..Len(ps) |->
             IF SameKey(ps[i], prediction)
             THEN [col \in DOMAIN ps[i] |->
                      IF col \in UpsertColumns THEN prediction[col] ELSE ps[i][col]]
             ELSE ps[i]]
    ELSE Append(ps, prediction)

\* rows ordered by userId: the order of the primary key index (matchId, userId)
RECURSIVE ByUserId(_)
ByUserId(rows) ==
    IF rows = <<>> THEN <<>>
    ELSE LET k == CHOOSE i \in 1..Len(rows) :
                      \A j \in 1..Len(rows) : rows[i].userId <= rows[j].userId
         IN  <<rows[k]>> \o
             ByUserId(SubSeq(rows, 1, k - 1) \o SubSeq(rows, k + 1, Len(rows)))

\* db.ts:106-109.  The SELECT has no ORDER BY: SQLite returns the rows in
\* rowid order (table scan) or in primary key order (index search), so the
\* result is one of these two sequences.
getPredictionsForMatch(ps, matchId) ==
    LET rows == SelectSeq(ps, LAMBDA r : r.matchId = matchId)
    IN  {rows, ByUserId(rows)}

\* deleteMatch without its first statement: the predictions stay
deleteMatchRowOnly(ms, ps, matchId) ==
    [predictions |-> ps,
     matches     |-> SelectSeq(ms, LAMBDA m : m.id # matchId)]

\* part_001:187-192
deleteMatch(ms, ps, matchId) ==
    [predictions |-> SelectSeq(ps, LAMBDA r : r.matchId # matchId),
     matches     |-> SelectSeq(ms, LAMBDA m : m.id # matchId)]

\* the place of a matchDate text in the BINARY collation, for the texts the
\* commands below supply
Collate(text) == IF text = "D" THEN 1 ELSE 2

\* the orders in which ORDER BY matchDate DESC may return the rows: rows
\* with equal matchDate come in either order
RECURSIVE DescByMatchDate(_)
DescByMatchDate(rows) ==
    IF rows = <<>> THEN {<<>>}
    ELSE LET first == {k \in 1..Len(rows) :
                          \A j \in 1..Len(rows) :
                             Collate(rows[k].matchDate) >= Collate(rows[j].matchDate)}
         IN  UNION {{<<rows[k]>> \o rest :
                        rest \in DescByMatchDate(SubSeq(rows, 1, k - 1)
                                     \o SubSeq(rows, k + 1, Len(rows)))} :
                    k \in first}

\* db.ts:111-114
getPastMatches(ms) ==
    DescByMatchDate(SelectSeq(ms, LAMBDA m : m.isOpen = 0))

\* db.ts:116-124: null when no row has the id
getMatchDetails(ms, ps, matchId) ==
    IF \A k \in 1..Len(ms) : ms[k].id # matchId THEN {NULL}
    ELSE {[match       |-> ms[CHOOSE k \in 1..Len(ms) : ms[k].id = matchId],
           predictions |-> preds] :
             preds \in getPredictionsForMatch(ps, matchId)}

\* the rows of the SELECT of part_001:164-169: the predictions joined with
\* their match, for the matches that are closed and have an actual score
FinalizedRows(ms, ps) ==
    LET finalized(r) ==
            \E k \in 1..Len(ms) :
               /\ ms[k].id = r.matchId
               /\ ms[k].isOpen = 0
               /\ ms[k].actualRuns # NULL
               /\ ms[k].actualWickets # NULL
        joined(r) ==
            LET m == ms[CHOOSE k \in 1..Len(ms) : ms[k].id = r.matchId]
            IN  [userId |-> r.userId, username |-> r.username,
                 runs |-> r.runs, wickets |-> r.wickets,
                 comment |-> r.comment,
                 actualRuns |-> m.actualRuns, actualWickets |-> m.actualWickets]
        rows == SelectSeq(ps, finalized)
    IN  [k \in 1..Len(rows) |-> joined(rows[k])]

\* part_001:172-179: the rows grouped by userId, a group being created at
\* the first row of its user and named after that row
RECURSIVE GroupByUser(_, _)
GroupByUser(rows, grouped) ==
    IF rows = <<>> THEN grouped
    ELSE LET row == Head(rows)
         IN  IF \E g \in 1..Len(grouped) : grouped[g].userId = row.userId
             THEN GroupByUser(Tail(rows),
                     [g \in 1..Len(grouped) |->
                         IF grouped[g].userId = row.userId
                         THEN [grouped[g] EXCEPT
                                  !.predictions = Append(@, row)]
                         ELSE grouped[g]])
             ELSE GroupByUser(Tail(rows),
                     Append(grouped, [userId      |-> row.userId,
                                      username    |-> row.username,
                                      predictions |-> <<row>>]))

\* getUserStats without its test of p.userId
getUserStatsOfEveryUser(ms, ps, userId) == FinalizedRows(ms, ps)

\* part_001:148-156
getUserStats(ms, ps, userId) ==
    SelectSeq(FinalizedRows(ms, ps), LAMBDA r : r.userId = userId)

\* part_001:159-185
getAllUserStats(ms, ps) == GroupByUser(FinalizedRows(ms, ps), <<>>)

(* --------------------------- winner resolution ------------------------- *)
Infinity == [inf |-> TRUE]

\* the loop with the comparison turned round: diff > bestDiff
RECURSIVE WinnerLoopLargest(_, _, _, _, _)
WinnerLoopLargest(variant, preds, actualScore, winner, bestDiff) ==
    IF preds = <<>> THEN winner
    ELSE LET pred == Head(preds)
             diff == scoreDifference(variant,
                         [runs |-> pred.runs, wickets |-> pred.wickets],
                         actualScore)
         IN  IF bestDiff = Infinity \/ diff > bestDiff.int
             THEN WinnerLoopLargest(variant, Tail(preds), actualScore, pred,
                                    Num(diff))
             ELSE WinnerLoopLargest(variant, Tail(preds), actualScore, winner,
                                    bestDiff)

\* the loop with a comparison that is not strict: diff <= bestDiff
RECURSIVE WinnerLoopLastTie(_, _, _, _, _)
WinnerLoopLastTie(variant, preds, actualScore, winner, bestDiff) ==
    IF preds = <<>> THEN winner
    ELSE LET pred == Head(preds)
             diff == scoreDifference(variant,
                         [runs |-> pred.runs, wickets |-> pred.wickets],
                         actualScore)
         IN  IF bestDiff = Infinity \/ diff <= bestDiff.int
             THEN WinnerLoopLastTie(variant, Tail(preds), actualScore, pred,
                                    Num(diff))
             ELSE WinnerLoopLastTie(variant, Tail(preds), actualScore, winner,
                                    bestDiff)

\* bot.ts:297-308: the loop over the predictions, from (winner, bestDiff)
RECURSIVE WinnerLoop(_, _, _, _, _)
WinnerLoop(variant, preds, actualScore, winner, bestDiff) ==
    IF preds = <<>> THEN winner
    ELSE LET pred == Head(preds)
             diff == scoreDifference(variant,
                         [runs |-> pred.runs, wickets |-> pred.wickets],
                         actualScore)
         IN  IF bestDiff = Infinity \/ diff < bestDiff.int
             THEN WinnerLoop(variant, Tail(preds), actualScore, pred, Num(diff))
             ELSE WinnerLoop(variant, Tail(preds), actualScore, winner, bestDiff)

\* bot.ts:297-298: let winner = null; let bestDiff = Infinity
ResolveWinner(variant, preds, actualScore) ==
    WinnerLoop(variant, preds, actualScore, NULL, Infinity)

(* ------------------------------ commands ------------------------------- *)
\* option values of /setup
SetupOptions ==
    {[team |-> "A", toss |-> "T", venue |-> "V", date |-> "D"]}

\* what /predict and /edit are sent with: the display name of the moment,
\* the score text and, in the advanced version, the optional comment; the
\* last text has no separator
Submissions ==
    {[username |-> "ann", options |-> [score |-> <<"1", "/", "0">>]],
     [username |-> "bob", options |-> [score |-> <<"3", "/", "1">>,
                                       comment |-> "c"]],
     [username |-> "ann", options |-> [score |-> <<"3">>]]}

\* score option of /end: two scores and a text with an empty segment
EndTexts == {<<"2", "/", "0">>, <<"3", "/", "1">>, <<"2", "/">>}

\* option values of /editmatch: team is supplied, toss is supplied empty,
\* venue and date are omitted
EditMatchOptions ==
    {[team |-> "B", toss |-> ""]}

Interaction(name, userId, username, options) ==
    [commandName |-> name, userId |-> userId, username |-> username,
     options |-> options]

SetupInteractions ==
    {Interaction("setup", u, "ann", o) : u \in Users, o \in SetupOptions}

SubmitInteractions(name) ==
    {Interaction(name, u, s.username, s.options) : u \in Users, s \in Submissions}

EndInteractions ==
    {Interaction("end", u, "ann", [score |-> t]) : u \in Users, t \in EndTexts}

EditMatchInteractions ==
    {Interaction("editmatch", u, "ann", o) : u \in Users, o \in EditMatchOptions}

PlainInteractions(name) ==
    {Interaction(name, u, "ann", <<>>) : u \in Users}

\* option matchid of /details: the ids setup can have issued
MatchIds == {ToString(k) : k \in 1..MaxMatches}

DetailsInteractions ==
    {Interaction("details", u, "ann", [matchid |-> id]) :
        u \in Users, id \in MatchIds}

\* interaction.options.getString(name): the value, or null when not supplied
HasOption(i, name) == name \in DOMAIN i.options

\* getString(name) is truthy: neither null nor the empty string
Truthy(i, name) == HasOption(i, name) /\ i.options[name] # ""

\* getString(name) || fallback
OptionOr(i, name, fallback) ==
    IF Truthy(i, name) THEN i.options[name] ELSE fallback

(* ------------------------------- state --------------------------------- *)
VARIABLES
    variant,       \* which build runs: "simple" (bot.ts) or "advanced"
    clock,         \* Date.now(): the next timestamp a setup reads
    currentMatch,  \* bot.ts:46  let currentMatch: { id: string } | null
    matches,       \* table matches
    predictions,   \* table predictions
    awaiting,      \* end handlers suspended at await interaction.reply(resultMsg)
    enumerated,    \* bot.ts:296  the local predictions of a suspended end handler
    reply,         \* what the last interaction.reply(...) call sent, and to whom
    called,        \* a helper function called on its own: its name and arguments
    returned       \* what that call returned

vars ==
    <<variant, clock, currentMatch, matches, predictions, awaiting, enumerated,
      reply, called, returned>>

\* the process has started on an empty database and no command has come yet
Init ==
    /\ variant \in Variants
    /\ clock = 1
    /\ currentMatch = NULL
    /\ matches = <<>>
    /\ predictions = <<>>
    /\ awaiting = 0
    /\ enumerated = <<>>
    /\ reply = [command |-> "none", kind |-> "None"]
    /\ called = NULL
    /\ returned = NULL

isAdmin(userId) == userId \in ADMIN_IDS

Reply(i, kind) == [command |-> i.commandName, kind |-> kind]

\* a reply followed by return: nothing but the reply happens
Rejected(i, kind) ==
    /\ reply' = Reply(i, kind)
    /\ UNCHANGED <<variant, clock, currentMatch, matches, predictions, awaiting,
                   enumerated>>

\* bot.ts:154-162.  Date.now() is read once per successful setup and is
\* taken to be later than at every earlier setup.
CreateMatch(i) ==
    LET id == ToString(clock)
    IN  /\ matches' = insertMatch(matches,
                         [id        |-> id,
                          teamName  |-> i.options.team,
                          toss      |-> i.options.toss,
                          venue     |-> i.options.venue,
                          matchDate |-> i.options.date,
                          isOpen    |-> TRUE])
        /\ currentMatch' = [id |-> id]
        /\ clock' = clock + 1
        /\ reply' = Reply(i, "SetupComplete") @@ [id |-> id]
        /\ UNCHANGED <<variant, predictions, awaiting, enumerated>>

\* Setup without the test of bot.ts:146
SetupWithoutActiveCheck(i) ==
    IF ~isAdmin(i.userId) THEN Rejected(i, "Unauthorized")
    ELSE CreateMatch(i)

\* Setup testing the stored isOpen flags in place of currentMatch
SetupChecksOpenFlag(i) ==
    IF ~isAdmin(i.userId) THEN Rejected(i, "Unauthorized")
    ELSE IF \E k \in 1..Len(matches) : matches[k].isOpen = 1
         THEN Rejected(i, "AlreadyActive")
         ELSE CreateMatch(i)

\* Setup without the assignment of bot.ts:161
SetupForgetsPointer(i) ==
    IF ~isAdmin(i.userId) THEN Rejected(i, "Unauthorized")
    ELSE IF currentMatch # NULL THEN Rejected(i, "AlreadyActive")
    ELSE LET id == ToString(clock)
         IN  /\ matches' = insertMatch(matches,
                              [id        |-> id,
                               teamName  |-> i.options.team,
                               toss      |-> i.options.toss,
                               venue     |-> i.options.venue,
                               matchDate |-> i.options.date,
                               isOpen    |-> TRUE])
             /\ clock' = clock + 1
             /\ reply' = Reply(i, "SetupComplete") @@ [id |-> id]
             /\ UNCHANGED <<variant, currentMatch, predictions, awaiting,
                            enumerated>>

\* Setup with an await between the test of bot.ts:146 and the assignment
\* of bot.ts:161: the test was passed before the handler was suspended, and
\* the pointer may have been set by another setup since
SetupTestsBeforeAwait(i) ==
    IF ~isAdmin(i.userId) THEN Rejected(i, "Unauthorized")
    ELSE \/ currentMatch # NULL /\ Rejected(i, "AlreadyActive")
         \/ CreateMatch(i)

\* bot.ts:138-164
Setup(i) ==
    IF ~isAdmin(i.userId) THEN Rejected(i, "Unauthorized")
    ELSE IF currentMatch # NULL THEN Rejected(i, "AlreadyActive")
    ELSE CreateMatch(i)

\* the object given to insertOrUpdatePrediction: bot.ts:182-188, and with
\* the comment in the advanced version
PredictionOf(i, score) ==
    LET row == [matchId  |-> currentMatch.id,
                userId   |-> i.userId,
                username |-> i.username,
                runs     |-> score.runs,
                wickets  |-> score.wickets]
    IN  IF variant = "simple" THEN row
        ELSE row @@ [comment |-> OptionOr(i, "comment", "")]

\* bot.ts:165-194 (predict) and bot.ts:195-224 (edit): the same code but for
\* the text of the reply
Submit(i, done) ==
    IF currentMatch = NULL THEN Rejected(i, "NoActiveMatch")
    ELSE LET score == parseScore(i.options.score)
         IN  IF score = NULL THEN Rejected(i, "InvalidScoreFormat")
             ELSE LET ps == insertOrUpdatePrediction(predictions,
                                                     PredictionOf(i, score))
                  IN  /\ Len(ps) <= MaxRows
                      /\ predictions' = ps
                      /\ reply' = Reply(i, done) @@ [score |-> i.options.score]
                      /\ UNCHANGED <<variant, clock, currentMatch, matches,
                                     awaiting, enumerated>>

Predict(i) == Submit(i, "PredictionSaved")

Edit(i) == Submit(i, "PredictionUpdated")

\* Close clearing the pointer as end does
CloseClearsPointer(i) ==
    IF ~isAdmin(i.userId) THEN Rejected(i, "Unauthorized")
    ELSE IF currentMatch = NULL THEN Rejected(i, "NoActiveMatch")
    ELSE /\ matches' = updateMatch(matches,
                           [id |-> currentMatch.id, isOpen |-> FALSE])
         /\ currentMatch' = NULL
         /\ reply' = Reply(i, "PollClosed")
         /\ UNCHANGED <<variant, clock, predictions, awaiting, enumerated>>

\* bot.ts:225-245
Close(i) ==
    IF ~isAdmin(i.userId) THEN Rejected(i, "Unauthorized")
    ELSE IF currentMatch = NULL THEN Rejected(i, "NoActiveMatch")
    ELSE /\ matches' = updateMatch(matches,
                           [id |-> currentMatch.id, isOpen |-> FALSE])
         /\ reply' = Reply(i, "PollClosed")
         /\ UNCHANGED <<variant, clock, currentMatch, predictions, awaiting,
                        enumerated>>

\* Finalize with an await between the update of the match and the read of
\* its predictions: another handler's prediction is stored in between
FinalizeReadsAfterAwait(i, actualScore) ==
    /\ matches' = updateMatch(matches,
                     [id            |-> currentMatch.id,
                      isOpen        |-> FALSE,
                      actualRuns    |-> actualScore.runs,
                      actualWickets |-> actualScore.wickets])
    /\ \E j \in SubmitInteractions("predict") :
          LET score == parseScore(j.options.score)
          IN  /\ score # NULL
              /\ predictions' = insertOrUpdatePrediction(predictions,
                                                         PredictionOf(j, score))
              /\ Len(predictions') <= MaxRows
    /\ enumerated' \in getPredictionsForMatch(predictions', currentMatch.id)
    /\ reply' = Reply(i, "Result")
                @@ [actual |-> actualScore,
                    winner |-> ResolveWinner(variant, enumerated', actualScore)]
    /\ awaiting' = awaiting + 1
    /\ UNCHANGED <<variant, clock, currentMatch>>

\* Finalize storing the actual score without isOpen: false
FinalizeKeepsOpen(i, actualScore) ==
    /\ matches' = updateMatch(matches,
                     [id            |-> currentMatch.id,
                      actualRuns    |-> actualScore.runs,
                      actualWickets |-> actualScore.wickets])
    /\ enumerated' \in getPredictionsForMatch(predictions, currentMatch.id)
    /\ reply' = Reply(i, "Result")
                @@ [actual |-> actualScore,
                    winner |-> ResolveWinner(variant, enumerated', actualScore)]
    /\ awaiting' = awaiting + 1
    /\ UNCHANGED <<variant, clock, currentMatch, predictions>>

\* bot.ts:290-313: the match is updated, its predictions are read, the
\* winner is resolved and the result is sent; the handler then waits for
\* the reply to be delivered
Finalize(i, actualScore) ==
    /\ matches' = updateMatch(matches,
                     [id            |-> currentMatch.id,
                      isOpen        |-> FALSE,
                      actualRuns    |-> actualScore.runs,
                      actualWickets |-> actualScore.wickets])
    /\ enumerated' \in getPredictionsForMatch(predictions, currentMatch.id)
    /\ reply' = Reply(i, "Result")
                @@ [actual |-> actualScore,
                    winner |-> ResolveWinner(variant, enumerated', actualScore)]
    /\ awaiting' = awaiting + 1
    /\ UNCHANGED <<variant, clock, currentMatch, predictions>>

\* End closing the match before it has parsed the score
EndUpdatesBeforeParse(i) ==
    IF ~isAdmin(i.userId) THEN Rejected(i, "Unauthorized")
    ELSE IF currentMatch = NULL THEN Rejected(i, "NoActiveMatch")
    ELSE LET actualScore == parseScore(i.options.score)
         IN  IF actualScore = NULL
             THEN /\ matches' = updateMatch(matches,
                                    [id |-> currentMatch.id, isOpen |-> FALSE])
                  /\ reply' = Reply(i, "InvalidScoreFormat")
                  /\ UNCHANGED <<variant, clock, currentMatch, predictions,
                                 awaiting, enumerated>>
             ELSE Finalize(i, actualScore)

\* End without the test of bot.ts:267
EndWithoutAdminCheck(i) ==
    IF currentMatch = NULL THEN Rejected(i, "NoActiveMatch")
    ELSE LET actualScore == parseScore(i.options.score)
         IN  IF actualScore = NULL THEN Rejected(i, "InvalidScoreFormat")
             ELSE Finalize(i, actualScore)

\* bot.ts:266-313: the end handler up to its await of the result reply
End(i) ==
    IF ~isAdmin(i.userId) THEN Rejected(i, "Unauthorized")
    ELSE IF currentMatch = NULL THEN Rejected(i, "NoActiveMatch")
    ELSE LET actualScore == parseScore(i.options.score)
         IN  IF actualScore = NULL THEN Rejected(i, "InvalidScoreFormat")
             ELSE Finalize(i, actualScore)

\* the end handler without the assignment of bot.ts:314
EndAfterReplyKeepsPointer ==
    /\ awaiting > 0
    /\ awaiting' = awaiting - 1
    /\ enumerated' = IF awaiting' = 0 THEN <<>> ELSE enumerated
    /\ UNCHANGED <<variant, clock, currentMatch, matches, predictions, reply,
                   called, returned>>

\* bot.ts:314-315: the end handler after its reply was delivered; its
\* locals are gone when the last suspended end handler has returned
EndAfterReply ==
    /\ awaiting > 0
    /\ currentMatch' = NULL
    /\ awaiting' = awaiting - 1
    /\ enumerated' = IF awaiting' = 0 THEN <<>> ELSE enumerated
    /\ UNCHANGED <<variant, clock, matches, predictions, reply, called,
                   returned>>

\* EditMatch writing every descriptive column, the empty text for an option
\* that was not supplied
EditMatchOverwrites(i) ==
    IF ~isAdmin(i.userId) THEN Rejected(i, "Unauthorized")
    ELSE IF currentMatch = NULL THEN Rejected(i, "NoActiveMatch")
    ELSE /\ matches' = updateMatch(matches,
               [id        |-> currentMatch.id,
                teamName  |-> OptionOr(i, "team", ""),
                toss      |-> OptionOr(i, "toss", ""),
                venue     |-> OptionOr(i, "venue", ""),
                matchDate |-> OptionOr(i, "date", "")])
         /\ reply' = Reply(i, "MatchDetailsUpdated")
         /\ UNCHANGED <<variant, clock, currentMatch, predictions, awaiting,
                        enumerated>>

\* case 'editmatch' of the advanced version
EditMatch(i) ==
    IF ~isAdmin(i.userId) THEN Rejected(i, "Unauthorized")
    ELSE IF currentMatch = NULL THEN Rejected(i, "NoActiveMatch")
    ELSE /\ matches' = updateMatch(matches,
               [id |-> currentMatch.id]
               @@ (IF Truthy(i, "team")
                   THEN [teamName |-> i.options.team] ELSE <<>>)
               @@ (IF Truthy(i, "toss")
                   THEN [toss |-> i.options.toss] ELSE <<>>)
               @@ (IF Truthy(i, "venue")
                   THEN [venue |-> i.options.venue] ELSE <<>>)
               @@ (IF Truthy(i, "date")
                   THEN [matchDate |-> i.options.date] ELSE <<>>))
         /\ reply' = Reply(i, "MatchDetailsUpdated")
         /\ UNCHANGED <<variant, clock, currentMatch, predictions, awaiting,
                        enumerated>>

\* CancelMatch without the test of part_000:569, deleting nothing when
\* there is no current match
CancelMatchWithoutCurrentCheck(i) ==
    IF ~isAdmin(i.userId) THEN Rejected(i, "Unauthorized")
    ELSE LET after == IF currentMatch = NULL
                      THEN [predictions |-> predictions, matches |-> matches]
                      ELSE deleteMatch(matches, predictions, currentMatch.id)
         IN  /\ predictions' = after.predictions
             /\ matches' = after.matches
             /\ currentMatch' = NULL
             /\ reply' = Reply(i, "Cancelled")
             /\ UNCHANGED <<variant, clock, awaiting, enumerated>>

\* case 'cancelmatch' of the advanced version
\* CancelMatch without the assignment of part_000:578: the pointer keeps
\* referring to the deleted match
CancelMatchKeepsPointer(i) ==
    IF ~isAdmin(i.userId) THEN Rejected(i, "Unauthorized")
    ELSE IF currentMatch = NULL THEN Rejected(i, "NoActiveMatch")
    ELSE LET after == deleteMatch(matches, predictions, currentMatch.id)
         IN  /\ predictions' = after.predictions
             /\ matches' = after.matches
             /\ reply' = Reply(i, "Cancelled")
             /\ UNCHANGED <<variant, clock, currentMatch, awaiting, enumerated>>

CancelMatch(i) ==
    IF ~isAdmin(i.userId) THEN Rejected(i, "Unauthorized")
    ELSE IF currentMatch = NULL THEN Rejected(i, "NoActiveMatch")
    ELSE LET after == deleteMatch(matches, predictions, currentMatch.id)
         IN  /\ predictions' = after.predictions
             /\ matches' = after.matches
             /\ currentMatch' = NULL
             /\ reply' = Reply(i, "Cancelled")
             /\ UNCHANGED <<variant, clock, awaiting, enumerated>>

\* one line of the list and details messages: the comment is shown by the
\* advanced version when it is not empty
Line(p) ==
    [username |-> p.username, runs |-> p.runs, wickets |-> p.wickets]
    @@ (IF "comment" \in DOMAIN p /\ p.comment # ""
        THEN [comment |-> p.comment] ELSE <<>>)

Lines(preds) == [k \in 1..Len(preds) |-> Line(preds[k])]

\* bot.ts:246-265
List(i) ==
    IF currentMatch = NULL THEN Rejected(i, "NoActiveMatch")
    ELSE /\ \E preds \in getPredictionsForMatch(predictions, currentMatch.id) :
               reply' = Reply(i, "Listed") @@ [lines |-> Lines(preds)]
         /\ UNCHANGED <<variant, clock, currentMatch, matches, predictions,
                        awaiting, enumerated>>

\* bot.ts:337-362
Details(i) ==
    \E details \in getMatchDetails(matches, predictions, i.options.matchid) :
       IF details = NULL THEN Rejected(i, "NotFound")
       ELSE /\ reply' = Reply(i, "Details")
                        @@ [id        |-> details.match.id,
                            teamName  |-> details.match.teamName,
                            venue     |-> details.match.venue,
                            matchDate |-> details.match.matchDate,
                            actual    |-> <<details.match.actualRuns,
                                            details.match.actualWickets>>,
                            lines     |-> Lines(details.predictions)]
            /\ UNCHANGED <<variant, clock, currentMatch, matches, predictions,
                           awaiting, enumerated>>

\* case 'export' of the advanced version
Export(i) ==
    IF ~isAdmin(i.userId) THEN Rejected(i, "Unauthorized")
    ELSE /\ \E past \in getPastMatches(matches) :
            \E preds \in [1..Len(past) -> UNION {getPredictionsForMatch(
                                 predictions, id) : id \in MatchIds}] :
               /\ \A k \in 1..Len(past) :
                     preds[k] \in getPredictionsForMatch(predictions, past[k].id)
               /\ reply' = Reply(i, "Exported")
                           @@ [matches |-> past,
                               details |-> [k \in 1..Len(past) |->
                                              [match       |-> past[k],
                                               predictions |-> preds[k]]]]
         /\ UNCHANGED <<variant, clock, currentMatch, matches, predictions,
                        awaiting, enumerated>>

\* part_000:461-465: the loop that adds up the distances
RECURSIVE TotalDiff(_)
TotalDiff(stats) ==
    IF stats = <<>> THEN 0
    ELSE scoreDifference("advanced",
             [runs |-> Head(stats).runs, wickets |-> Head(stats).wickets],
             [runs    |-> Head(stats).actualRuns.int,
              wickets |-> Head(stats).actualWickets.int])
         + TotalDiff(Tail(stats))

\* (total / count).toFixed(2), in hundredths
ToFixed2(total, count) == (200 * total + count) \div (2 * count)

\* case 'mystats' of the advanced version
MyStats(i) ==
    LET stats == getUserStats(matches, predictions, i.userId)
    IN  IF stats = <<>> THEN Rejected(i, "NoPastPredictions")
        ELSE /\ reply' = Reply(i, "MyStats")
                         @@ [count    |-> Len(stats),
                             avgError |-> ToFixed2(TotalDiff(stats), Len(stats))]
             /\ UNCHANGED <<variant, clock, currentMatch, matches, predictions,
                            awaiting, enumerated>>

\* Array.prototype.sort((a, b) => a.avgError - b.avgError): ascending and
\* stable
RECURSIVE SortByAvgError(_)
SortByAvgError(entries) ==
    IF entries = <<>> THEN <<>>
    ELSE LET k == CHOOSE i \in 1..Len(entries) :
                      /\ \A j \in 1..Len(entries) :
                            entries[i].avgError <= entries[j].avgError
                      /\ \A j \in 1..(i - 1) :
                            entries[j].avgError > entries[i].avgError
         IN  <<entries[k]>> \o
             SortByAvgError(SubSeq(entries, 1, k - 1)
                            \o SubSeq(entries, k + 1, Len(entries)))

\* case 'leaderboard' of the advanced version.  The error of a user is
\* Math.random() * 50 (part_000:494): any value, here one of 0..MaxRandom,
\* drawn anew for every user at every call.  An entry keeps the userId of
\* the group it was made from.
Leaderboard(i) ==
    LET userStats == getAllUserStats(matches, predictions)
    IN  IF userStats = <<>> THEN Rejected(i, "NoLeaderboardData")
        ELSE /\ \E random \in [1..Len(userStats) -> 0..MaxRandom] :
                   reply' = Reply(i, "Leaderboard")
                            @@ [leaderboard |->
                                  SortByAvgError(
                                     [g \in 1..Len(userStats) |->
                                         [userId   |-> userStats[g].userId,
                                          username |-> userStats[g].username,
                                          avgError |-> random[g]]])]
             /\ UNCHANGED <<variant, clock, currentMatch, matches, predictions,
                            awaiting, enumerated>>

\* bot.ts:363-364: the default case, which the baseline takes for the
\* commands only the advanced version has
UnknownCommand(i) == Rejected(i, "UnknownCommand")

\* One command arrives and its handler runs up to its first await.  With
\* commands delivered one at a time (concurrent = FALSE) no handler is
\* suspended when a command arrives.
Arrives(concurrent) == concurrent \/ awaiting = 0

DoSetup(concurrent) ==
    /\ Arrives(concurrent)
    /\ UNCHANGED <<called, returned>>
    /\ \E i \in SetupInteractions : Setup(i)
    /\ clock' <= MaxMatches + 1

DoPredict(concurrent) ==
    /\ Arrives(concurrent)
    /\ UNCHANGED <<called, returned>>
    /\ \E i \in SubmitInteractions("predict") : Predict(i)

DoEdit(concurrent) ==
    /\ Arrives(concurrent)
    /\ UNCHANGED <<called, returned>>
    /\ \E i \in SubmitInteractions("edit") : Edit(i)

DoClose(concurrent) ==
    /\ Arrives(concurrent)
    /\ UNCHANGED <<called, returned>>
    /\ \E i \in PlainInteractions("close") : Close(i)

DoEnd(concurrent) ==
    /\ Arrives(concurrent)
    /\ UNCHANGED <<called, returned>>
    /\ \E i \in EndInteractions : End(i)
    /\ awaiting' <= MaxAwaiting

DoEditMatch(concurrent) ==
    /\ Arrives(concurrent)
    /\ UNCHANGED <<called, returned>>
    /\ variant = "advanced"
    /\ \E i \in EditMatchInteractions : EditMatch(i)

DoCancelMatch(concurrent) ==
    /\ Arrives(concurrent)
    /\ UNCHANGED <<called, returned>>
    /\ variant = "advanced"
    /\ \E i \in PlainInteractions("cancelmatch") : CancelMatch(i)

DoList(concurrent) ==
    /\ Arrives(concurrent)
    /\ UNCHANGED <<called, returned>>
    /\ \E i \in PlainInteractions("list") : List(i)

DoDetails(concurrent) ==
    /\ Arrives(concurrent)
    /\ UNCHANGED <<called, returned>>
    /\ \E i \in DetailsInteractions : Details(i)

DoExport(concurrent) ==
    /\ Arrives(concurrent)
    /\ UNCHANGED <<called, returned>>
    /\ variant = "advanced"
    /\ \E i \in PlainInteractions("export") : Export(i)

DoLeaderboard(concurrent) ==
    /\ Arrives(concurrent)
    /\ UNCHANGED <<called, returned>>
    /\ variant = "advanced"
    /\ \E i \in PlainInteractions("leaderboard") : Leaderboard(i)

DoMyStats(concurrent) ==
    /\ Arrives(concurrent)
    /\ UNCHANGED <<called, returned>>
    /\ variant = "advanced"
    /\ \E i \in PlainInteractions("mystats") : MyStats(i)

DoUnknownCommand(concurrent) ==
    /\ Arrives(concurrent)
    /\ UNCHANGED <<called, returned>>
    /\ variant = "simple"
    /\ \E i \in EditMatchInteractions \cup PlainInteractions("cancelmatch")
                \cup PlainInteractions("export")
                \cup PlainInteractions("leaderboard")
                \cup PlainInteractions("mystats") :
          UnknownCommand(i)

\* commands delivered one at a time: a handler has returned before the next
\* command arrives
Next ==
    \/ DoSetup(FALSE)
    \/ DoPredict(FALSE)
    \/ DoEdit(FALSE)
    \/ DoClose(FALSE)
    \/ DoEnd(FALSE)
    \/ DoEditMatch(FALSE)
    \/ DoCancelMatch(FALSE)
    \/ DoList(FALSE)
    \/ DoDetails(FALSE)
    \/ DoExport(FALSE)
    \/ DoLeaderboard(FALSE)
    \/ DoMyStats(FALSE)
    \/ DoUnknownCommand(FALSE)
    \/ EndAfterReply

Spec == Init /\ [][Next]_vars

\* commands delivered concurrently: a command may arrive while handlers are
\* suspended at an await.  These are the commands that write to the store
\* or to the pointer; list, details, export, leaderboard and mystats write to
\* neither and hold nothing across their await, so they take no part in the
\* interleavings.
NextConcurrent ==
    \/ DoSetup(TRUE)
    \/ DoPredict(TRUE)
    \/ DoEdit(TRUE)
    \/ DoClose(TRUE)
    \/ DoEnd(TRUE)
    \/ DoEditMatch(TRUE)
    \/ DoCancelMatch(TRUE)
    \/ DoUnknownCommand(TRUE)
    \/ EndAfterReply

SpecConcurrent == Init /\ [][NextConcurrent]_vars

(* -------------------- the lifecycle commands on their own -------------- *)
LifecycleSetup ==
    /\ UNCHANGED <<called, returned>>
    /\ \E i \in SetupInteractions : Setup(i)
    /\ clock' <= MaxLifecycleMatches + 1

LifecycleEnd ==
    /\ UNCHANGED <<called, returned>>
    /\ \E i \in EndInteractions : End(i)
    /\ awaiting' <= MaxOverlappingEnds

\* setup, close, end and cancelmatch delivered concurrently, without any
\* prediction: a longer run of matches and two overlapping end handlers
NextLifecycle ==
    \/ LifecycleSetup
    \/ LifecycleEnd
    \/ DoClose(TRUE)
    \/ DoCancelMatch(TRUE)
    \/ DoUnknownCommand(TRUE)
    \/ EndAfterReply

SpecLifecycle == Init /\ [][NextLifecycle]_vars

(* --------------------------- failing store writes ---------------------- *)
\* A store call that throws ends its handler at once: the statements after
\* the call are not executed and no reply is sent.  The variable reply then
\* records how the handler ended.
Threw(i) == [command |-> i.commandName, kind |-> "StoreError"]

\* SetupFails with the assignment of bot.ts:161 placed before insertMatch
SetupFailsAfterPointer(i) ==
    /\ isAdmin(i.userId)
    /\ currentMatch = NULL
    /\ currentMatch' = [id |-> ToString(clock)]
    /\ reply' = Threw(i)
    /\ UNCHANGED <<variant, clock, matches, predictions, awaiting, enumerated>>

\* bot.ts:138-160 with insertMatch throwing: no row is inserted
SetupFails(i) ==
    /\ isAdmin(i.userId)
    /\ currentMatch = NULL
    /\ reply' = Threw(i)
    /\ UNCHANGED <<variant, clock, currentMatch, matches, predictions, awaiting,
                   enumerated>>

\* bot.ts:266-295 with updateMatch throwing: the row is not updated
EndFails(i) ==
    /\ isAdmin(i.userId)
    /\ currentMatch # NULL
    /\ parseScore(i.options.score) # NULL
    /\ reply' = Threw(i)
    /\ UNCHANGED <<variant, clock, currentMatch, matches, predictions, awaiting,
                   enumerated>>

\* part_000:561-577 with deleteMatch throwing, in its first statement
\* (nothing is deleted) or in its second (the predictions are deleted, the
\* match is not)
CancelMatchFails(i) ==
    /\ isAdmin(i.userId)
    /\ currentMatch # NULL
    /\ \/ predictions' = predictions
       \/ predictions' = deleteMatch(matches, predictions,
                                     currentMatch.id).predictions
    /\ reply' = Threw(i)
    /\ UNCHANGED <<variant, clock, currentMatch, matches, awaiting, enumerated>>

DoSetupFails ==
    /\ awaiting = 0
    /\ UNCHANGED <<called, returned>>
    /\ \E i \in SetupInteractions : SetupFails(i)

DoEndFails ==
    /\ awaiting = 0
    /\ UNCHANGED <<called, returned>>
    /\ \E i \in EndInteractions : EndFails(i)

DoCancelMatchFails ==
    /\ awaiting = 0
    /\ UNCHANGED <<called, returned>>
    /\ variant = "advanced"
    /\ \E i \in PlainInteractions("cancelmatch") : CancelMatchFails(i)

\* the commands that write, delivered one at a time, each store write of
\* setup, end and cancelmatch succeeding or throwing
NextStoreFailure ==
    \/ DoSetup(FALSE)
    \/ DoPredict(FALSE)
    \/ DoEdit(FALSE)
    \/ DoClose(FALSE)
    \/ DoEnd(FALSE)
    \/ DoEditMatch(FALSE)
    \/ DoCancelMatch(FALSE)
    \/ DoUnknownCommand(FALSE)
    \/ EndAfterReply
    \/ DoSetupFails
    \/ DoEndFails
    \/ DoCancelMatchFails

SpecStoreFailure == Init /\ [][NextStoreFailure]_vars

(* ---------------------------- process restarts -------------------------- *)
\* The process stops and starts again: the module is loaded anew, so
\* bot.ts:46 initialises currentMatch to null and every handler that was
\* suspended is gone, while the database file keeps both tables
\* (db.ts:28-50 creates them only IF NOT EXISTS).
Restart ==
    /\ currentMatch' = NULL
    /\ awaiting' = 0
    /\ enumerated' = <<>>
    /\ reply' = [command |-> "none", kind |-> "None"]
    /\ UNCHANGED <<variant, clock, matches, predictions, called, returned>>

\* the writing commands one at a time, with a restart possible at any point
NextRestart ==
    \/ DoSetup(FALSE)
    \/ DoPredict(FALSE)
    \/ DoEdit(FALSE)
    \/ DoClose(FALSE)
    \/ DoEnd(FALSE)
    \/ DoEditMatch(FALSE)
    \/ DoCancelMatch(FALSE)
    \/ DoUnknownCommand(FALSE)
    \/ EndAfterReply
    \/ Restart

SpecRestart == Init /\ [][NextRestart]_vars

(* ------------------------ the helpers on their own --------------------- *)
\* the characters of the texts given to parseScore
Alphabet == {"1", "2", "x", "/", " ", ".", "-"}

Texts == UNION {[1..n -> Alphabet] : n \in 0..MaxTextLen}

Scores == [runs : 0..MaxRuns, wickets : 0..MaxWickets]

\* the bot's state is not touched by a call of a helper
HelperCall ==
    UNCHANGED <<variant, clock, currentMatch, matches, predictions, awaiting,
                enumerated, reply>>

\* bot.ts:31-38 called with a text; the helpers keep no state, so one call
\* from the initial state is every call
CallParseScore ==
    /\ called = NULL
    /\ \E scoreStr \in Texts :
          /\ called' = [fn |-> "parseScore", scoreStr |-> scoreStr]
          /\ returned' = [value |-> parseScore(scoreStr)]
    /\ HelperCall

\* bot.ts:41-43 (baseline) or part_000:59-61 (advanced) called with two scores
CallScoreDifference ==
    /\ called = NULL
    /\ \E pred \in Scores, actual \in Scores :
          /\ called' = [fn |-> "scoreDifference", pred |-> pred,
                        actual |-> actual]
          /\ returned' = [value |-> scoreDifference(variant, pred, actual)]
    /\ HelperCall

NextHelpers ==
    \/ CallParseScore
    \/ CallScoreDifference

\* parseScore and scoreDifference applied to every argument within the
\* bounds, in either build
SpecHelpers == Init /\ [][NextHelpers]_vars

(* ------------------------------- claims -------------------------------- *)
OpenMatches == {k \in 1..Len(matches) : matches[k].isOpen = 1}

Range(seq) == {seq[k] : k \in 1..Len(seq)}

RowsOf(ps, id) == SelectSeq(ps, LAMBDA r : r.matchId = id)

StoredMatch(id) == CHOOSE m \in Range(matches) : m.id = id

\* C1: with commands delivered one at a time and no restart, in every
\* reachable state at most one stored match has isOpen = 1.
C1_AtMostOneOpenMatch == Cardinality(OpenMatches) <= 1

\* a finished match and an open one are stored together
C1_Witness ==
    /\ Len(matches) = 2
    /\ matches[1].isOpen = 0
    /\ matches[1].actualRuns # NULL
    /\ matches[2].isOpen = 1

\* C2: a setup by an admin while a current match exists is answered
\* AlreadyActive and changes neither the matches, nor the predictions, nor
\* the current-match pointer.
C2_SetupWhileActiveChangesNothing ==
    [][\A i \in SetupInteractions :
          (Setup(i) /\ isAdmin(i.userId) /\ currentMatch # NULL)
          => /\ reply' = [command |-> "setup", kind |-> "AlreadyActive"]
             /\ matches' = matches
             /\ predictions' = predictions
             /\ currentMatch' = currentMatch]_vars

\* a second setup was refused while the first match, with a prediction, is
\* still the current one
C2_Witness ==
    /\ reply = [command |-> "setup", kind |-> "AlreadyActive"]
    /\ currentMatch = [id |-> "1"]
    /\ Len(matches) = 1
    /\ Len(predictions) > 0

\* what a successful setup does: one row is appended, open and without an
\* actual score, under an id no stored match has, and it becomes current
SetupCreated(i) ==
    /\ reply'.kind = "SetupComplete"
    /\ Len(matches') = Len(matches) + 1
    /\ SubSeq(matches', 1, Len(matches)) = matches
    /\ LET new == matches'[Len(matches')]
       IN  /\ new.isOpen = 1
           /\ new.actualRuns = NULL
           /\ new.actualWickets = NULL
           /\ \A m \in Range(matches) : m.id # new.id
           /\ currentMatch' = [id |-> new.id]
    /\ predictions' = predictions

\* C3 as stated: a setup by an admin is refused exactly when some stored
\* match is open, and succeeds in every state in which no match is open.
C3_SetupRefusedIffSomeMatchOpen ==
    [][\A i \in SetupInteractions :
          (Setup(i) /\ isAdmin(i.userId))
          => IF OpenMatches # {}
             THEN reply'.kind = "AlreadyActive"
             ELSE SetupCreated(i)]_vars

\* C3 amended: a setup by an admin is refused exactly when the current-match
\* pointer is not null, which includes a match closed but not yet ended, and
\* succeeds when the pointer is null.
C3_SetupRefusedIffCurrentMatch ==
    [][\A i \in SetupInteractions :
          (Setup(i) /\ isAdmin(i.userId))
          => IF currentMatch # NULL
             THEN /\ reply'.kind = "AlreadyActive"
                  /\ UNCHANGED <<matches, predictions, currentMatch>>
             ELSE SetupCreated(i)]_vars

\* a setup was refused although no stored match is open: the current match
\* was closed and not ended
C3_Witness ==
    /\ reply = [command |-> "setup", kind |-> "AlreadyActive"]
    /\ currentMatch # NULL
    /\ OpenMatches = {}
    /\ Len(matches) > 0

\* the actual score stored with a finalized match
ActualOf(m) == [runs |-> m.actualRuns.int, wickets |-> m.actualWickets.int]

\* the distance of a prediction row to the actual score stored with match id
Distance(p, id) ==
    scoreDifference(variant, [runs |-> p.runs, wickets |-> p.wickets],
                    ActualOf(StoredMatch(id)))

\* an end handler has just sent its result and is waiting at its reply
ResultSent == awaiting > 0 /\ reply.command = "end" /\ reply.kind = "Result"

\* C4: the winner a successful end reports is a stored prediction of the
\* current match whose distance to the stored actual score is at most that
\* of every prediction of the match; without predictions no winner is named.
C4_WinnerIsClosest ==
    ResultSent =>
        LET id   == currentMatch.id
            rows == RowsOf(predictions, id)
        IN  IF rows = <<>>
            THEN reply.winner = NULL
            ELSE /\ reply.winner \in Range(rows)
                 /\ \A p \in Range(rows) :
                       Distance(reply.winner, id) <= Distance(p, id)

\* two predictions, the second enumerated strictly closer, and it wins
C4_Witness ==
    /\ ResultSent
    /\ Len(enumerated) = 2
    /\ Distance(enumerated[2], currentMatch.id)
           < Distance(enumerated[1], currentMatch.id)
    /\ reply.winner = enumerated[2]

\* C5: among the predictions at the minimum distance the winner is the one
\* that comes first in the sequence getPredictionsForMatch returned.
C5_FirstEnumeratedWinsTie ==
    (ResultSent /\ reply.winner # NULL) =>
        LET id == currentMatch.id
        IN  /\ enumerated \in getPredictionsForMatch(predictions, id)
            /\ \E k \in 1..Len(enumerated) :
                  /\ reply.winner = enumerated[k]
                  /\ \A j \in 1..Len(enumerated) :
                        Distance(enumerated[k], id) <= Distance(enumerated[j], id)
                  /\ \A j \in 1..(k - 1) :
                        Distance(enumerated[j], id) # Distance(enumerated[k], id)

\* two predictions at the same distance, and the first enumerated wins
C5_Witness ==
    /\ ResultSent
    /\ Len(enumerated) = 2
    /\ Distance(enumerated[1], currentMatch.id)
           = Distance(enumerated[2], currentMatch.id)
    /\ reply.winner = enumerated[1]

KeysUnique(ps) ==
    \A a, b \in 1..Len(ps) : SameKey(ps[a], ps[b]) => a = b

\* the row of user i.userId for the current match exists and the step
\* replaces its runs, wickets, username and comment by those of i, leaving
\* the other rows and the number of rows as they were
Resubmitted(i) ==
    LET score == parseScore(i.options.score)
        mine(r) == r.matchId = currentMatch.id /\ r.userId = i.userId
    IN  /\ Len(predictions') = Len(predictions)
        /\ \A k \in 1..Len(predictions) :
              IF mine(predictions[k])
              THEN /\ mine(predictions'[k])
                   /\ predictions'[k].runs = score.runs
                   /\ predictions'[k].wickets = score.wickets
                   /\ predictions'[k].username = i.username
                   /\ variant = "advanced" =>
                         predictions'[k].comment = OptionOr(i, "comment", "")
              ELSE predictions'[k] = predictions[k]

HasPrediction(i) ==
    /\ currentMatch # NULL
    /\ parseScore(i.options.score) # NULL
    /\ \E r \in Range(predictions) :
          r.matchId = currentMatch.id /\ r.userId = i.userId

\* C6: the predictions table never holds two rows with the same (matchId,
\* userId), and an accepted predict or edit by a user who has a row for the
\* current match replaces that row's values and adds no row.
C6_OneRowPerUserAndMatch ==
    [][/\ KeysUnique(predictions')
       /\ \A i \in SubmitInteractions("predict") :
             (reply'.command = "predict" /\ HasPrediction(i) /\ Predict(i))
             => Resubmitted(i)
       /\ \A i \in SubmitInteractions("edit") :
             (reply'.command = "edit" /\ HasPrediction(i) /\ Edit(i))
             => Resubmitted(i)]_vars

\* the older of two rows holds the score of the submission just accepted,
\* which the other row does not: the older row was rewritten in place
C6_Witness ==
    /\ reply.kind \in {"PredictionSaved", "PredictionUpdated"}
    /\ Len(predictions) = 2
    /\ predictions[1].matchId = predictions[2].matchId
    /\ parseScore(reply.score) =
           [runs |-> predictions[1].runs, wickets |-> predictions[1].wickets]
    /\ parseScore(reply.score) #
           [runs |-> predictions[2].runs, wickets |-> predictions[2].wickets]
    /\ predictions[1].username = "bob"

\* C7: an end by an admin, with a current match, whose score text does not
\* parse is answered InvalidScoreFormat and changes nothing.
C7_EndWithBadScoreChangesNothing ==
    [][\A i \in EndInteractions :
          (/\ End(i)
           /\ isAdmin(i.userId)
           /\ currentMatch # NULL
           /\ parseScore(i.options.score) = NULL)
          => /\ reply' = [command |-> "end", kind |-> "InvalidScoreFormat"]
             /\ UNCHANGED <<matches, predictions, currentMatch, awaiting>>]_vars

\* an end was refused for its score text while the current match is open
C7_Witness ==
    /\ reply = [command |-> "end", kind |-> "InvalidScoreFormat"]
    /\ currentMatch # NULL
    /\ StoredMatch(currentMatch.id).isOpen = 1
    /\ StoredMatch(currentMatch.id).actualRuns = NULL
    /\ Len(predictions) > 0

MatchIn(ms, id) == CHOOSE m \in Range(ms) : m.id = id

\* the first row of preds among those closest to actualScore, or NULL
FirstClosest(preds, actualScore) ==
    LET d(p) == scoreDifference(variant,
                    [runs |-> p.runs, wickets |-> p.wickets], actualScore)
    IN  IF preds = <<>> THEN NULL
        ELSE preds[CHOOSE k \in 1..Len(preds) :
                      /\ \A j \in 1..Len(preds) : d(preds[k]) <= d(preds[j])
                      /\ \A j \in 1..(k - 1) : d(preds[j]) > d(preds[k])]

\* a step in which an end handler sends its result: the match is stored
\* closed with the reported actual score, the winner is resolved over the
\* predictions of that match, and the pointer still refers to the match
ResultStep ==
    /\ currentMatch # NULL
    /\ reply'.command = "end"
    /\ reply'.kind = "Result"
    /\ LET m == MatchIn(matches', currentMatch.id)
       IN  /\ m.isOpen = 0
           /\ m.actualRuns = Num(reply'.actual.runs)
           /\ m.actualWickets = Num(reply'.actual.wickets)
    /\ \E preds \in getPredictionsForMatch(predictions', currentMatch.id) :
          reply'.winner = FirstClosest(preds, reply'.actual)
    /\ currentMatch' = currentMatch

\* C8: a successful end stores isOpen = 0 and the actual score, resolves the
\* winner and sends the result while the pointer still refers to the match;
\* the pointer is null once the handler has returned, and an admin's setup
\* that follows is accepted.
C8_EndReportsThenClearsPointer ==
    [][/\ awaiting' > awaiting => ResultStep
       /\ awaiting' < awaiting => currentMatch' = NULL
       /\ \A i \in SetupInteractions :
             (/\ reply.kind = "Result"
              /\ awaiting = 0
              /\ isAdmin(i.userId)
              /\ Setup(i))
             => (reply'.kind = "SetupComplete" /\ currentMatch' # NULL)]_vars

\* the end handler has returned: the match is stored with its result, a
\* winner was reported and the pointer is null
C8_Witness ==
    /\ reply.command = "end"
    /\ reply.kind = "Result"
    /\ reply.winner # NULL
    /\ awaiting = 0
    /\ currentMatch = NULL
    /\ \E m \in Range(matches) :
          m.isOpen = 0 /\ m.actualRuns = Num(reply.actual.runs)

\* C9: under concurrent delivery, the step that stores the actual score and
\* isOpen = 0 is the step that reads the predictions: no prediction is
\* stored in between, and the winner is resolved from the predictions of
\* the match as stored at that instant.
C9_FinalizationIsOneStep ==
    [][awaiting' > awaiting
       => /\ ResultStep
          /\ predictions' = predictions
          /\ enumerated' \in getPredictionsForMatch(predictions, currentMatch.id)
          /\ reply'.winner = FirstClosest(enumerated', reply'.actual)]_vars

\* while an end handler is suspended at its reply a prediction was stored
\* for the match it ended: the match now has more rows than the handler read
C9_Witness ==
    /\ awaiting > 0
    /\ reply.command = "predict"
    /\ reply.kind = "PredictionSaved"
    /\ currentMatch # NULL
    /\ Len(RowsOf(predictions, currentMatch.id)) > Len(enumerated)

\* the current match was closed and has no result yet
ClosedNotEnded ==
    /\ currentMatch # NULL
    /\ MatchIn(matches, currentMatch.id).isOpen = 0
    /\ MatchIn(matches, currentMatch.id).actualRuns = NULL

\* C10: a predict or edit that arrives after the current match was closed
\* and before it is ended or cancelled is rejected and leaves the
\* predictions as they were.
C10_NoPredictionAfterClose ==
    [][(ClosedNotEnded /\ reply'.command \in {"predict", "edit"})
       => /\ reply'.kind \notin {"PredictionSaved", "PredictionUpdated"}
          /\ predictions' = predictions]_vars

\* C11: a successful close sets isOpen = 0 on the current match and changes
\* nothing else: no actual score is recorded, the other columns, the other
\* matches and all predictions are as before and the pointer still refers
\* to the match; the pointer becomes null only when an end handler returns
\* or by cancelmatch.
C11_CloseOnlyFlipsIsOpen ==
    [][/\ (reply'.command = "close" /\ reply'.kind = "PollClosed")
          => /\ currentMatch # NULL
             /\ currentMatch' = currentMatch
             /\ predictions' = predictions
             /\ Len(matches') = Len(matches)
             /\ \A k \in 1..Len(matches) :
                   matches'[k] = IF matches[k].id = currentMatch.id
                                 THEN [matches[k] EXCEPT !.isOpen = 0]
                                 ELSE matches[k]
       /\ (currentMatch # NULL /\ currentMatch' = NULL)
          => (awaiting' < awaiting \/ reply'.command = "cancelmatch")]_vars

\* the current match was closed after a prediction was stored for it: it
\* has no actual score, and it is still the current match
C11_Witness ==
    /\ reply.command = "close"
    /\ reply.kind = "PollClosed"
    /\ currentMatch # NULL
    /\ MatchIn(matches, currentMatch.id).isOpen = 0
    /\ MatchIn(matches, currentMatch.id).actualRuns = NULL
    /\ RowsOf(predictions, currentMatch.id) # <<>>

\* C12: a successful cancelmatch removes the row of the current match and
\* every prediction with its matchId and sets the pointer to null; the
\* other matches and predictions are as before; a details lookup for an id
\* that no stored match has, as the cancelled id from then on, is answered
\* NotFound.
C12_CancelRemovesMatchAndPredictions ==
    [][/\ (reply'.command = "cancelmatch" /\ reply'.kind = "Cancelled")
          => /\ currentMatch # NULL
             /\ currentMatch' = NULL
             /\ matches' = SelectSeq(matches,
                               LAMBDA m : m.id # currentMatch.id)
             /\ predictions' = SelectSeq(predictions,
                                   LAMBDA r : r.matchId # currentMatch.id)
             /\ \A m \in Range(matches') : m.id # currentMatch.id
             /\ \A r \in Range(predictions') : r.matchId # currentMatch.id
             /\ getMatchDetails(matches', predictions', currentMatch.id)
                = {NULL}
       /\ \A i \in DetailsInteractions :
             (/\ reply'.command = "details"
              /\ \A m \in Range(matches) : m.id # i.options.matchid
              /\ Details(i))
             => reply'.kind = "NotFound"]_vars

\* the second match was cancelled: the first match, ended before, and its
\* prediction are still stored, and nothing of the second is
C12_Witness ==
    /\ reply.command = "cancelmatch"
    /\ reply.kind = "Cancelled"
    /\ currentMatch = NULL
    /\ clock = 3
    /\ Len(matches) = 1
    /\ matches[1].id = "1"
    /\ predictions # <<>>
    /\ \A r \in Range(predictions) : r.matchId = "1"

\* the handler the build runs for an interaction
Handler(i) ==
    CASE i.commandName = "setup" -> Setup(i)
      [] i.commandName = "predict" -> Predict(i)
      [] i.commandName = "edit" -> Edit(i)
      [] i.commandName = "close" -> Close(i)
      [] i.commandName = "list" -> List(i)
      [] i.commandName = "end" -> End(i)
      [] i.commandName = "details" -> Details(i)
      [] i.commandName = "editmatch" ->
            IF variant = "advanced" THEN EditMatch(i) ELSE UnknownCommand(i)
      [] i.commandName = "cancelmatch" ->
            IF variant = "advanced" THEN CancelMatch(i) ELSE UnknownCommand(i)
      [] i.commandName = "export" ->
            IF variant = "advanced" THEN Export(i) ELSE UnknownCommand(i)

\* the admin commands
AdminInteractions ==
    SetupInteractions \cup PlainInteractions("close") \cup EndInteractions
    \cup EditMatchInteractions \cup PlainInteractions("cancelmatch")
    \cup PlainInteractions("export")

\* C13: setup, close, end, editmatch, cancelmatch and export from a caller
\* who is not in ADMIN_IDS are rejected, in whatever state, and the
\* matches, the predictions and the pointer stay as they are.
C13_NonAdminChangesNothing ==
    [][\A i \in AdminInteractions :
          (/\ ~isAdmin(i.userId)
           /\ reply'.command = i.commandName
           /\ Handler(i))
          => /\ reply'.kind \in {"Unauthorized", "UnknownCommand"}
             /\ UNCHANGED <<matches, predictions, currentMatch>>]_vars

\* an end from a caller who is not an admin was refused while a match with
\* a prediction is current and open
C13_Witness ==
    /\ reply.command = "end"
    /\ reply.kind = "Unauthorized"
    /\ currentMatch # NULL
    /\ MatchIn(matches, currentMatch.id).isOpen = 1
    /\ MatchIn(matches, currentMatch.id).actualRuns = NULL
    /\ RowsOf(predictions, currentMatch.id) # <<>>

\* the descriptive columns and the option of /editmatch that sets each
DescriptiveColumns ==
    {<<"teamName", "team">>, <<"toss", "toss">>, <<"venue", "venue">>,
     <<"matchDate", "date">>}

\* C14: an editmatch changes no column but the descriptive ones it was
\* given a value for: an omitted option leaves its column as it was, a
\* changed column holds the option's value, and id, isOpen, the actual
\* score, the other matches, the predictions and the pointer are as before.
C14_EditMatchMergesSuppliedFields ==
    [][\A i \in EditMatchInteractions :
          (/\ reply'.command = "editmatch"
           /\ reply'.kind = "MatchDetailsUpdated"
           /\ variant = "advanced"
           /\ EditMatch(i))
          => /\ currentMatch # NULL
             /\ UNCHANGED <<currentMatch, predictions>>
             /\ Len(matches') = Len(matches)
             /\ \A k \in 1..Len(matches) :
                   IF matches[k].id # currentMatch.id
                   THEN matches'[k] = matches[k]
                   ELSE /\ \A col \in {"id", "isOpen", "actualRuns",
                                       "actualWickets"} :
                              matches'[k][col] = matches[k][col]
                        /\ \A c \in DescriptiveColumns :
                              /\ ~HasOption(i, c[2])
                                 => matches'[k][c[1]] = matches[k][c[1]]
                              /\ matches'[k][c[1]] # matches[k][c[1]]
                                 => matches'[k][c[1]] = i.options[c[2]]]_vars

\* the team of the current match was edited after a prediction was stored:
\* the team is the new one, toss, venue and date are those of setup
C14_Witness ==
    /\ reply.command = "editmatch"
    /\ reply.kind = "MatchDetailsUpdated"
    /\ currentMatch # NULL
    /\ LET m == MatchIn(matches, currentMatch.id)
       IN  /\ m.teamName = "B"
           /\ m.toss = "T"
           /\ m.venue = "V"
           /\ m.matchDate = "D"
    /\ RowsOf(predictions, currentMatch.id) # <<>>

\* the columns the immutability of a match is about
ResultColumns ==
    {"teamName", "toss", "venue", "matchDate", "actualRuns", "actualWickets"}

\* the row of match m is stored after the step with these columns as before
KeepsColumns(m) ==
    \A n \in Range(matches') :
       n.id = m.id => \A col \in ResultColumns : n[col] = m[col]

\* C15 as claimed: once a match has isOpen = 0, no step changes its
\* descriptive columns or its actual score; it can only be removed.
C15_ClosedMatchImmutable ==
    [][\A m \in Range(matches) : m.isOpen = 0 => KeepsColumns(m)]_vars

\* C15 amended: with commands delivered one at a time, a match that end has
\* finalized is never changed or removed afterwards; a match that was only
\* closed is still the current match and is changed by editmatch and end
\* and removed by cancelmatch, and by no other command.
C15_FinalizedMatchImmutable ==
    [][\A m \in Range(matches) :
          /\ m.actualRuns # NULL => m \in Range(matches')
          /\ (m.isOpen = 0 /\ m \notin Range(matches'))
             => /\ currentMatch = [id |-> m.id]
                /\ reply'.command \in {"editmatch", "end", "cancelmatch"}]_vars

\* the first match was finalized; the second was closed and its team was
\* edited afterwards or before, the last command being an accepted editmatch
C15_Witness ==
    /\ Len(matches) = 2
    /\ matches[1].actualRuns # NULL
    /\ matches[1].teamName = "A"
    /\ matches[2].isOpen = 0
    /\ matches[2].actualRuns = NULL
    /\ matches[2].teamName = "B"
    /\ reply.command = "editmatch"
    /\ reply.kind = "MatchDetailsUpdated"

\* C16: a stored match that has actualRuns or actualWickets has both and has
\* isOpen = 0, and a match with isOpen = 1 has neither.
C16_ActualScoreOnlyWhenFinalized ==
    \A m \in Range(matches) :
       /\ (m.actualRuns # NULL \/ m.actualWickets # NULL)
          => (m.actualRuns # NULL /\ m.actualWickets # NULL /\ m.isOpen = 0)
       /\ m.isOpen = 1 => (m.actualRuns = NULL /\ m.actualWickets = NULL)

\* a match finalized with the score 3/1 is stored next to an open, later
\* match that has no actual score
C16_Witness ==
    /\ Len(matches) = 2
    /\ matches[1].isOpen = 0
    /\ matches[1].actualRuns = Num(3)
    /\ matches[1].actualWickets = Num(1)
    /\ matches[2].isOpen = 1
    /\ matches[2].actualRuns = NULL
    /\ currentMatch = [id |-> matches[2].id]

\* the commands that need a current match
CurrentMatchInteractions ==
    SubmitInteractions("predict") \cup SubmitInteractions("edit")
    \cup PlainInteractions("close") \cup PlainInteractions("list")
    \cup EndInteractions \cup EditMatchInteractions
    \cup PlainInteractions("cancelmatch")

\* C17 as claimed: each of these commands, issued while the pointer is null,
\* is answered NoActiveMatch and changes nothing.
C17_NoCurrentMatchIsNoActiveMatch ==
    [][\A i \in CurrentMatchInteractions :
          (/\ currentMatch = NULL
           /\ reply'.command = i.commandName
           /\ Handler(i))
          => /\ reply'.kind = "NoActiveMatch"
             /\ UNCHANGED <<matches, predictions, currentMatch>>]_vars

\* the answer to a command that needs a current match when there is none:
\* the admin test comes first, and the baseline build does not have
\* editmatch and cancelmatch
AnswerWithoutCurrentMatch(i) ==
    IF variant = "simple" /\ i.commandName \in {"editmatch", "cancelmatch"}
    THEN "UnknownCommand"
    ELSE IF /\ i.commandName \in {"close", "end", "editmatch", "cancelmatch"}
            /\ ~isAdmin(i.userId)
         THEN "Unauthorized"
         ELSE "NoActiveMatch"

\* C17 amended: each of these commands, issued while the pointer is null,
\* changes nothing; it is answered NoActiveMatch when the caller passes the
\* admin test of the command and the build has the command, Unauthorized
\* when the caller fails the admin test, and UnknownCommand in the baseline
\* build for editmatch and cancelmatch.
C17_NoCurrentMatchChangesNothing ==
    [][\A i \in CurrentMatchInteractions :
          (/\ currentMatch = NULL
           /\ reply'.command = i.commandName
           /\ Handler(i))
          => /\ reply'.kind = AnswerWithoutCurrentMatch(i)
             /\ UNCHANGED <<matches, predictions, currentMatch>>]_vars

\* after a match with a prediction was ended, a cancelmatch by an admin
\* was answered NoActiveMatch
C17_Witness ==
    /\ reply.command = "cancelmatch"
    /\ reply.kind = "NoActiveMatch"
    /\ currentMatch = NULL
    /\ matches # <<>>
    /\ predictions # <<>>

\* t is a base-10 integer: an optional sign and then digits only
IsInteger(t) ==
    LET body == IF t # <<>> /\ Head(t) \in {"+", "-"} THEN Tail(t) ELSE t
    IN  body # <<>> /\ \A j \in 1..Len(body) : body[j] \in Digits

\* seg is a base-10 integer with white space around it
IsPaddedInteger(seg) ==
    \E a \in 1..Len(seg), b \in 1..Len(seg) :
       /\ a <= b
       /\ \A j \in 1..(a - 1) : seg[j] \in WhiteSpace
       /\ \A j \in (b + 1)..Len(seg) : seg[j] \in WhiteSpace
       /\ IsInteger(SubSeq(seg, a, b))

\* the text has one separator, with an integer on either side
WellFormedScore(text) ==
    \E k \in 1..Len(text) :
       /\ text[k] = "/"
       /\ \A j \in 1..Len(text) : j # k => text[j] # "/"
       /\ IsPaddedInteger(SubSeq(text, 1, k - 1))
       /\ IsPaddedInteger(SubSeq(text, k + 1, Len(text)))

\* C18: parseScore returns a score exactly for the texts made of two
\* integers around one separator, and null for every other text.
C18_ParseScoreAcceptsOnlyIntegers ==
    (called # NULL /\ called.fn = "parseScore")
    => (returned.value # NULL <=> WellFormedScore(called.scoreStr))

\* C19: scoreDifference is the difference of the runs in the baseline and
\* the difference of the runs plus five times that of the wickets in the
\* advanced version; it is never negative, and zero for equal scores.
C19_ScoreDifferenceFormula ==
    (called # NULL /\ called.fn = "scoreDifference")
    => LET p == called.pred
           a == called.actual
           runs == IF p.runs >= a.runs THEN p.runs - a.runs
                   ELSE a.runs - p.runs
           wickets == IF p.wickets >= a.wickets THEN p.wickets - a.wickets
                      ELSE a.wickets - p.wickets
       IN  /\ variant = "simple" => returned.value = runs
           /\ variant = "advanced" => returned.value = runs + 5 * wickets
           /\ returned.value >= 0
           /\ p = a => returned.value = 0

\* the advanced distance of 1/0 to 3/1 was computed: 2 + 5 * 1
C19_Witness ==
    /\ variant = "advanced"
    /\ called = [fn |-> "scoreDifference", pred |-> [runs |-> 1, wickets |-> 0],
                 actual |-> [runs |-> 3, wickets |-> 1]]
    /\ returned = [value |-> 7]

\* the sum of the advanced distances of the rows to the actual score of
\* the match of each row
RECURSIVE TotalDistance(_)
TotalDistance(rows) ==
    IF rows = <<>> THEN 0
    ELSE scoreDifference("advanced",
             [runs |-> Head(rows).runs, wickets |-> Head(rows).wickets],
             [runs |-> Head(rows).actualRuns.int,
              wickets |-> Head(rows).actualWickets.int])
         + TotalDistance(Tail(rows))

\* the predictions of a user on finalized matches
StatsOf(userId) ==
    SelectSeq(FinalizedRows(matches, predictions),
              LAMBDA r : r.userId = userId)

\* the average distance of user u is lower than that of user v
LowerAverage(u, v) ==
    TotalDistance(StatsOf(u)) * Len(StatsOf(v))
    < TotalDistance(StatsOf(v)) * Len(StatsOf(u))

\* C20: the leaderboard lists the users who have a prediction on a
\* finalized match, each once, and a user with a lower average distance
\* stands before a user with a higher one.
C20_LeaderboardRanksByAverage ==
    (reply.command = "leaderboard" /\ reply.kind = "Leaderboard")
    => LET board == reply.leaderboard
       IN  /\ {board[k].userId : k \in 1..Len(board)}
              = {u \in Users : StatsOf(u) # <<>>}
           /\ \A j \in 1..Len(board), k \in 1..Len(board) :
                 j # k => board[j].userId # board[k].userId
           /\ \A j \in 1..Len(board), k \in 1..Len(board) :
                 LowerAverage(board[j].userId, board[k].userId) => j < k

\* the predictions of a user whose match is closed and has an actual score
FinalizedPredictionsOf(userId) ==
    {r \in Range(predictions) :
        /\ r.userId = userId
        /\ \E m \in Range(matches) :
              /\ m.id = r.matchId
              /\ m.isOpen = 0
              /\ m.actualRuns # NULL
              /\ m.actualWickets # NULL}

\* the advanced distance of a prediction to the actual score of its match
OwnDistance(r) ==
    LET m == MatchIn(matches, r.matchId)
        runs == IF r.runs >= m.actualRuns.int THEN r.runs - m.actualRuns.int
                ELSE m.actualRuns.int - r.runs
        wickets == IF r.wickets >= m.actualWickets.int
                   THEN r.wickets - m.actualWickets.int
                   ELSE m.actualWickets.int - r.wickets
    IN  runs + 5 * wickets

RECURSIVE SumOver(_)
SumOver(rows) ==
    IF rows = {} THEN 0
    ELSE LET r == CHOOSE x \in rows : TRUE
         IN  OwnDistance(r) + SumOver(rows \ {r})

\* C21: mystats averages the advanced distance over the caller's
\* predictions on finalized matches, each against the actual score of its
\* own match; predictions on a match without a result do not count, and a
\* caller without any such prediction gets the empty answer.
C21_MyStatsAveragesFinalized ==
    [][\A i \in PlainInteractions("mystats") :
          (/\ reply'.command = "mystats"
           /\ variant = "advanced"
           /\ MyStats(i))
          => LET own == FinalizedPredictionsOf(i.userId)
                 n == Cardinality(own)
             IN  IF own = {} THEN reply'.kind = "NoPastPredictions"
                 ELSE /\ reply'.kind = "MyStats"
                      /\ reply'.count = n
                      /\ 2 * n * reply'.avgError <= 200 * SumOver(own) + n
                      /\ 2 * n * reply'.avgError > 200 * SumOver(own) - n]_vars

\* one user has a prediction on the finalized first match, at distance 7,
\* and one on the open second match: mystats counted one prediction
C21_Witness ==
    /\ reply.command = "mystats"
    /\ reply.kind = "MyStats"
    /\ reply.count = 1
    /\ reply.avgError = 700
    /\ Len(matches) = 2
    /\ matches[1].actualRuns # NULL
    /\ matches[2].isOpen = 1
    /\ Len(predictions) = 2
    /\ predictions[1].userId = predictions[2].userId
    /\ predictions[1].matchId = "1"
    /\ predictions[2].matchId = "2"

\* C22: under concurrent delivery a setup by an admin tests the pointer and
\* sets it in one step: it succeeds only from a state without a current
\* match and leaves a current match behind, and from a state with a current
\* match it is answered AlreadyActive and inserts nothing; so of two
\* setups delivered together the first succeeds and the second is refused.
C22_ConcurrentSetupsNeverBothSucceed ==
    [][\A i \in SetupInteractions :
          (/\ reply'.command = "setup"
           /\ isAdmin(i.userId)
           /\ Setup(i))
          => IF currentMatch = NULL
             THEN SetupCreated(i) /\ currentMatch' # NULL
             ELSE /\ reply'.kind = "AlreadyActive"
                  /\ UNCHANGED <<matches, predictions, currentMatch>>]_vars

\* two setups and nothing else: one open match is stored and current, the
\* last setup was refused
C22_Witness ==
    /\ reply = [command |-> "setup", kind |-> "AlreadyActive"]
    /\ clock = 2
    /\ awaiting = 0
    /\ Len(matches) = 1
    /\ matches[1].isOpen = 1
    /\ matches[1].teamName = "A"
    /\ currentMatch = [id |-> matches[1].id]
    /\ predictions = <<>>

\* C23: when insertMatch in setup, updateMatch in end or deleteMatch in
\* cancelmatch throws, the pointer is what it was before the command; and
\* at most one stored match is open, whatever writes have failed.
C23_FailedWriteKeepsPointer ==
    [][/\ reply'.kind = "StoreError" => currentMatch' = currentMatch
       /\ Cardinality({k \in 1..Len(matches') : matches'[k].isOpen = 1}) <= 1]_vars

\* the deleteMatch of a cancelmatch threw: the second match is still
\* stored, open and current, next to the finalized first match and its
\* prediction
C23_Witness ==
    /\ reply = [command |-> "cancelmatch", kind |-> "StoreError"]
    /\ Len(matches) = 2
    /\ matches[1].actualRuns # NULL
    /\ currentMatch = [id |-> matches[2].id]
    /\ matches[2].isOpen = 1
    /\ Len(predictions) = 1
    /\ predictions[1].matchId = matches[1].id

\* C24: under concurrent delivery, with end handlers overtaken while they
\* wait for their reply, no two stored matches are open at once.
C24_AtMostOneOpenMatchWhenOvertaken ==
    \A j \in 1..Len(matches), k \in 1..Len(matches) :
       (matches[j].isOpen = 1 /\ matches[k].isOpen = 1) => j = k

\* C25: under concurrent delivery, the actual score stored with a match is
\* never written again, and a result is sent only for a match that had no
\* actual score yet.
C25_FinalizedAtMostOnce ==
    [][/\ \A m \in Range(matches) :
             m.actualRuns # NULL
             => \A n \in Range(matches') :
                   n.id = m.id => /\ n.actualRuns = m.actualRuns
                                  /\ n.actualWickets = m.actualWickets
       /\ awaiting' > awaiting
          => MatchIn(matches, currentMatch.id).actualRuns = NULL]_vars

\* C26: under concurrent delivery, once end has stored the actual score of a
\* match, no predict or edit adds a prediction row for that match or changes
\* the score of one of its rows; the rows of a finalized match change only
\* when cancelmatch removes the match.
C26_PredictionsFrozenAfterResult ==
    [][\A m \in Range(matches) :
          (m.actualRuns # NULL /\ \E n \in Range(matches') : n.id = m.id)
          => RowsOf(predictions', m.id) = RowsOf(predictions, m.id)]_vars

\* C27: in every reachable state of every interleaving, each prediction row
\* belongs to a stored match and a non-null current-match pointer refers to a
\* stored match.
C27_StoreReferentiallyConsistent ==
    /\ \A r \in Range(predictions) : \E m \in Range(matches) : m.id = r.matchId
    /\ currentMatch # NULL => \E m \in Range(matches) : m.id = currentMatch.id

\* A cancelmatch has just removed a match together with its predictions
\* while another match and its predictions stay stored.
C27_Witness ==
    /\ reply.command = "cancelmatch"
    /\ reply.kind = "Cancelled"
    /\ currentMatch = NULL
    /\ Len(matches) > 0
    /\ Len(predictions) > 0
    /\ Len(matches) + 1 < clock

\* C28: with one command at a time and restarts allowed, every stored match
\* that is open or has no actual score is the match the current-match pointer
\* refers to, and so at most one stored match is open.
C28_UnfinishedMatchIsCurrent ==
    /\ \A m \in Range(matches) :
          (m.isOpen = 1 \/ m.actualRuns = NULL)
          => (currentMatch # NULL /\ currentMatch.id = m.id)
    /\ \A j \in 1..Len(matches), k \in 1..Len(matches) :
          (matches[j].isOpen = 1 /\ matches[k].isOpen = 1) => j = k

====
